---- MODULE Spec2Model ----
(***************************************************************************)
(* A model of jschon's Catalogue (src/jschon/catalogue/__init__.py) and of *)
(* the validation keywords that read sibling scopes                        *)
(* (src/jschon/vocabulary/validation.py).                                  *)
(*                                                                         *)
(* Strings are sequences of one-character strings, so that str.startswith, *)
(* slicing, pathlib's join and with_suffix are computed as Python computes *)
(* them.  A file system path is the sequence of its components.            *)
(***************************************************************************)
EXTENDS Integers, Sequences, FiniteSets, TLC

VARIABLES
    directories,        \* Catalogue._directories: insertion-ordered dict, a sequence of [uri, dir]
    files,              \* the regular files on disk (paths); the environment of load_json
    vocabularies,       \* Catalogue._vocabularies: vocabulary URI -> Vocabulary
    format_validators,  \* Catalogue._format_validators: format attribute -> validator
    schema_cache,       \* Catalogue._schema_cache: session -> (uri -> schema)
    live,               \* session -> number of `with catalogue.session(...)` scopes suspended at the yield
    scope,              \* the Scope tree of the last keyword evaluation
    last                \* the last call: its name, its arguments and what it returned or raised

vars == <<directories, files, vocabularies, format_validators, schema_cache, live, scope, last>>

------------------------------------------------------------------------------
(* Bounds *)

MaxRem == 3        \* longest URI remainder (characters after the base path) handed to load_json
MaxFiles == 1      \* most regular files on disk
MaxNest == 2       \* most session scopes open at once
MaxElems == 2      \* longest array instance
MaxLimit == 2      \* largest minContains / maxContains value
MaxDefaults == 1   \* most default vocabulary URIs handed to create_metaschema
MaxTypes == 2      \* most types listed by a type keyword
MaxHalves == 5     \* largest number instance, in halves (2.5)

------------------------------------------------------------------------------
(* Strings *)

RECURSIVE SeqsUpTo(_, _)
SeqsUpTo(S, n) ==
    IF n = 0 THEN {<<>>}
    ELSE LET shorter == SeqsUpTo(S, n - 1)
         IN shorter \cup {Append(s, c) : s \in {t \in shorter : Len(t) = n - 1}, c \in S}

\* str.startswith
StartsWith(s, prefix) ==
    /\ Len(prefix) <= Len(s)
    /\ SubSeq(s, 1, Len(prefix)) = prefix

\* s[n:]
Drop(s, n) == SubSeq(s, n + 1, Len(s))

\* str.split(sep) for a one-character separator
RECURSIVE Split(_, _)
Split(s, sep) ==
    IF \A i \in 1..Len(s) : s[i] # sep THEN <<s>>
    ELSE LET i == CHOOSE k \in 1..Len(s) : s[k] = sep /\ \A j \in 1..(k - 1) : s[j] # sep
         IN <<SubSeq(s, 1, i - 1)>> \o Split(Drop(s, i), sep)

Dot == <<".">>
DotDot == <<".", ".">>
DotJson == <<".", "j", "s", "o", "n">>

------------------------------------------------------------------------------
(* URIs (jschon.uri.URI): scheme, path and fragment; an absent scheme is   *)
(* the empty string, an absent fragment has has_fragment = FALSE.          *)

Uri(scheme, path) == [scheme |-> scheme, path |-> path, has_fragment |-> FALSE, fragment |-> <<>>]
UriF(scheme, path, fragment) == [scheme |-> scheme, path |-> path, has_fragment |-> TRUE, fragment |-> fragment]

\* str(uri)
UriStr(u) ==
    (IF u.scheme = <<>> THEN <<>> ELSE u.scheme \o <<":">>)
        \o u.path
        \o (IF u.has_fragment THEN <<"#">> \o u.fragment ELSE <<>>)

\* a normalized URI holds no dot segments (RFC 3986, 5.2.4)
IsNormalized(u) ==
    \A i \in 1..Len(Split(u.path, "/")) : Split(u.path, "/")[i] \notin {Dot, DotDot}

\* URI.validate(require_scheme, require_normalized, allow_fragment): TRUE, or FALSE for URIError
UriValidate(u, require_scheme, require_normalized, allow_fragment) ==
    /\ require_scheme => u.scheme # <<>>
    /\ require_normalized => IsNormalized(u)
    /\ ~allow_fragment => ~u.has_fragment

\* uri.copy(fragment=False)
UriCopyNoFragment(u) == [u EXCEPT !.has_fragment = FALSE, !.fragment = <<>>]

------------------------------------------------------------------------------
(* The file system *)

\* pathlib's parse of a path string: empty and "." components are dropped
Components(s) == SelectSeq(Split(s, "/"), LAMBDA c : c # <<>> /\ c # Dot)

\* pathlib.Path(base_dir) / remainder: an absolute right operand replaces the left one
PathJoin(base_dir, remainder) ==
    IF remainder # <<>> /\ remainder[1] = "/" THEN Components(remainder)
    ELSE base_dir \o Components(remainder)

\* PurePath.suffix of a file name: from the last dot, unless the name starts or ends with it
Suffix(name) ==
    LET dots == {i \in 1..Len(name) : name[i] = "."}
    IN IF dots = {} THEN <<>>
       ELSE LET i == CHOOSE k \in dots : \A j \in dots : j <= k
            IN IF 1 < i /\ i < Len(name) THEN SubSeq(name, i, Len(name)) ELSE <<>>

\* the two ways of putting ".json" on the name of a path (the path is never the root here:
\* it is a path that open() has just reported FileNotFoundError for)
AppendSuffix(path, suffix) ==
    [path EXCEPT ![Len(path)] = @ \o suffix]

ReplaceSuffix(path, suffix) ==
    [path EXCEPT ![Len(path)] = SubSeq(@, 1, Len(@) - Len(Suffix(@))) \o suffix]

\* PurePath.with_suffix: the old suffix, if any, is replaced
WithSuffix(path, suffix) == ReplaceSuffix(path, suffix)

IsProperPrefix(p, q) == Len(p) < Len(q) /\ SubSeq(q, 1, Len(p)) = p

DirD == << <<"d">> >>
DirE == << <<"e">> >>
DirN == << <<"n">> >>
MountDirs == {DirD, DirE}

\* pathlib.Path(p).is_dir()
IsDir(fs, p) == p \in MountDirs \/ \E f \in fs : IsProperPrefix(p, f)

\* a file system holds no file below a file, and none in place of a directory
FsOk(fs) == \A f \in fs : ~IsDir(fs, f) /\ \A g \in fs : ~IsProperPrefix(f, g)

\* dicts: d[k] = v, d.pop(k, None) and {}
FnPut(f, k, v) == [x \in DOMAIN f \cup {k} |-> IF x = k THEN v ELSE f[x]]
FnDel(f, k) == [x \in DOMAIN f \ {k} |-> f[x]]
EmptyDict == FnDel(<<>>, 1)

Ok(v) == [kind |-> "ok", val |-> v]
Raise(e) == [kind |-> e, val |-> <<>>]

\* json_loadf(path): open() and parse; the document is identified by its file
JsonLoadf(fs, p) ==
    IF p \in fs THEN Ok(p)
    ELSE IF IsDir(fs, p) THEN Raise("IsADirectoryError")
    ELSE IF \E f \in fs : IsProperPrefix(f, p) THEN Raise("NotADirectoryError")
    ELSE Raise("FileNotFoundError")

------------------------------------------------------------------------------
(* Catalogue.add_directory and Catalogue.load_json *)

\* dict.__setitem__ on an insertion-ordered dict: a present key keeps its place
DictSet(d, k, v) ==
    IF \E i \in 1..Len(d) : d[i].uri = k
    THEN [i \in 1..Len(d) |-> IF d[i].uri = k THEN [uri |-> k, dir |-> v] ELSE d[i]]
    ELSE Append(d, [uri |-> k, dir |-> v])

\* only the emptiness of the path is checked
AddDirectoryNoPathSlash_EmptyOnly(base_uri) ==
    base_uri.path = <<>>

\* the checks of add_directory that raise CatalogueError
AddDirectoryNoPathSlash(base_uri) ==
    base_uri.path = <<>> \/ base_uri.path[Len(base_uri.path)] # "/"

AddDirectoryAccepts(fs, base_uri, base_dir) ==
    /\ UriValidate(base_uri, TRUE, TRUE, FALSE)
    /\ ~AddDirectoryNoPathSlash(base_uri)
    /\ IsDir(fs, base_dir)

\* the list comprehension of load_json: the mounts whose base URI string prefixes uristr,
\* in dict order
Candidates(dirs, uristr) ==
    SelectSeq(dirs, LAMBDA c : StartsWith(uristr, UriStr(c.uri)))

\* candidates[0] with no sort at all
FirstCandidate(candidates) == candidates[1]

\* candidates.sort(key=len of the base string, reverse=True); candidates[0].
\* The sort is stable, so the first of the longest candidates comes out first.
LongestCandidate(candidates) ==
    LET len(i) == Len(UriStr(candidates[i].uri))
        i == CHOOSE k \in 1..Len(candidates) :
                /\ \A j \in 1..Len(candidates) : len(j) <= len(k)
                /\ \A j \in 1..(k - 1) : len(j) < len(k)
    IN candidates[i]

\* Catalogue.load_json(uri): the value returned or the exception raised
LoadJson(dirs, fs, uri) ==
    IF ~UriValidate(uri, TRUE, TRUE, FALSE) THEN Raise("CatalogueError")
    ELSE LET uristr == UriStr(uri)
             candidates == Candidates(dirs, uristr)
         IN IF candidates = <<>> THEN Raise("CatalogueError")
            ELSE LET c == LongestCandidate(candidates)
                     filepath == PathJoin(c.dir, Drop(uristr, Len(UriStr(c.uri))))
                     first == JsonLoadf(fs, filepath)
                 IN IF first.kind # "FileNotFoundError" THEN first
                    ELSE LET second == JsonLoadf(fs, WithSuffix(filepath, DotJson))
                         IN IF second.kind # "FileNotFoundError" THEN second
                            ELSE Raise("CatalogueError")

NoUri == Uri(<<>>, <<>>)
NoCall == [op |-> "init"]

add_directory(base_uri, base_dir) ==
    /\ IF AddDirectoryAccepts(files, base_uri, base_dir)
       THEN /\ directories' = DictSet(directories, base_uri, base_dir)
            /\ last' = [op |-> "add_directory", uri |-> base_uri, dir |-> base_dir, res |-> Ok(<<>>)]
       ELSE /\ directories' = directories
            /\ last' = [op |-> "add_directory", uri |-> base_uri, dir |-> base_dir,
                        res |-> Raise("CatalogueError")]
    /\ UNCHANGED <<files, vocabularies, format_validators, schema_cache, live, scope>>

load_json(uri) ==
    /\ last' = [op |-> "load_json", uri |-> uri, res |-> LoadJson(directories, files, uri)]
    /\ UNCHANGED <<directories, files, vocabularies, format_validators, schema_cache, live, scope>>

------------------------------------------------------------------------------
(* The mounts, files and URIs the callers use *)

Scheme == <<"s">>
PathA == <<"/", "a", "/">>
PathAA == <<"/", "a", "/", "a", "/">>
BaseA == Uri(Scheme, PathA)
BaseAA == Uri(Scheme, PathAA)

\* what add_directory is called with: the two mounts, and one argument per way of being invalid
BaseUriArgs ==
    { BaseA, BaseAA,
      Uri(<<>>, PathA),                          \* no scheme
      Uri(Scheme, <<"/", "a", "/", ".", "/">>),   \* not normalized
      UriF(Scheme, PathA, <<"a">>),              \* a fragment
      Uri(Scheme, <<"/", "a">>),                 \* a path not ending with '/'
      Uri(Scheme, <<>>) }                        \* no path
BaseDirArgs == {DirD, DirE, DirN}

\* what load_json is called with: every file name of up to MaxRem characters below the inner
\* mount (which the outer mount prefixes too), and two invalid URIs
RemChars == {"a", "."}
Rems == SeqsUpTo(RemChars, MaxRem)
LoadUriArgs ==
    {Uri(Scheme, PathAA \o r) : r \in Rems}
        \cup {Uri(<<>>, PathAA \o <<"a">>), UriF(Scheme, PathAA \o <<"a">>, <<"a">>)}

FileNames == { <<"a", ".", "a">>, <<"a">> \o DotJson, <<"a", ".", "a">> \o DotJson }
FileDirs == {DirE, DirD \o << <<"a">> >>}
FilePaths == {Append(d, n) : d \in FileDirs, n \in FileNames}
FileSystems == {fs \in SUBSET FilePaths : Cardinality(fs) <= MaxFiles /\ FsOk(fs)}

InitFs ==
    /\ directories = <<>>
    /\ files \in FileSystems
    /\ vocabularies = <<>>
    /\ format_validators = <<>>
    /\ schema_cache = <<>>
    /\ live = <<>>
    /\ scope = <<>>
    /\ last = NoCall

NextFs ==
    \/ \E base_uri \in BaseUriArgs, base_dir \in BaseDirArgs : add_directory(base_uri, base_dir)
    \/ \E uri \in LoadUriArgs : load_json(uri)

SpecFs == InitFs /\ [][NextFs]_vars

------------------------------------------------------------------------------
(* Schemas and JSON pointers.  A JSONSchema object is identified by the    *)
(* session and uri it was constructed with (its attributes); a node of it  *)
(* by the object and the pointer that leads to it.  Every schema document  *)
(* has the shape                                                           *)
(*     {"p": {"a": {...}}}                                                  *)
(* where the root and /p/a are schemas and /p is a plain JSON object (as   *)
(* "properties" and one of its members are).                               *)

TokP == <<"p">>
TokA == <<"a">>

Node(session, uri, ptr) == [session |-> session, uri |-> uri, ptr |-> ptr]

\* the kind of the node a pointer leads to, "missing" when there is none
DocKind(ptr) ==
    IF ptr = <<>> THEN "schema"
    ELSE IF ptr = <<TokP>> THEN "json"
    ELSE IF ptr = <<TokP, TokA>> THEN "schema"
    ELSE "missing"

\* JSONPointer.parse_uri_fragment: the tokens, or JSONPointerError for a string that is
\* neither empty nor starts with '/'
ParseUriFragment(fragment) ==
    IF fragment = <<>> THEN Ok(<<>>)
    ELSE IF fragment[1] # "/" THEN Raise("JSONPointerError")
    ELSE Ok(Split(Drop(fragment, 1), "/"))

\* JSONPointer.evaluate(schema): the node reached, or JSONPointerError
PointerEvaluate(tokens, schema) ==
    IF DocKind(schema.ptr \o tokens) = "missing" THEN Raise("JSONPointerError")
    ELSE Ok([schema EXCEPT !.ptr = @ \o tokens])

\* not isinstance(schema, JSONSchema), with the check left out
NotJSONSchema_Never(node) == FALSE

\* not isinstance(schema, JSONSchema)
NotJSONSchema(node) == DocKind(node.ptr) # "schema"

------------------------------------------------------------------------------
(* The schema cache: a dict of dicts *)


Meta == "__meta__"
Default == "default"
Uuid1 == "uuid-1"
Tags == {Meta, Default, Uuid1}
UuidTags == {Uuid1}
NoSession == "None"

\* Catalogue.add_schema: setdefault(session, {}), then the assignment
AddSchema(cache, uri, schema, session) ==
    LET c == IF session \in DOMAIN cache THEN cache ELSE FnPut(cache, session, EmptyDict)
    IN FnPut(c, session, FnPut(c[session], uri, schema))

\* Catalogue.del_schema
DelSchema(cache, uri, session) ==
    IF session \in DOMAIN cache
    THEN FnPut(cache, session, FnDel(cache[session], uri))
    ELSE cache

\* JSONSchema(doc, catalogue=self, session=session, uri=uri): the new object registers
\* itself with the catalogue, by add_schema(uri, self, session=session), as it is constructed
JSONSchemaInit(cache, uri, session) ==
    LET new == Node(session, uri, <<>>)
    IN [schema |-> new, cache |-> AddSchema(cache, uri, new, session)]

\* try_caches with the two caches in the other order
TryCaches_MetaFirst(session) ==
    IF session = Meta THEN <<Meta>> ELSE <<Meta, session>>

\* try_caches of get_schema
TryCaches(session) ==
    IF session = Meta THEN <<Meta>> ELSE <<session, Meta>>

\* for cacheid in try_caches: try self._schema_cache[cacheid][uri] except KeyError
CacheLookup(cache, try_caches, uri) ==
    LET hits == SelectSeq(try_caches,
                    LAMBDA c : c \in DOMAIN cache /\ uri \in DOMAIN cache[c])
    IN IF hits = <<>> THEN Raise("KeyError") ELSE Ok(cache[hits[1]][uri])

\* the end of get_schema: the descent of the fragment and the isinstance check
GetSchemaResolve(cache, schema, uri) ==
    LET ptr == IF uri.fragment # <<>> THEN ParseUriFragment(uri.fragment) ELSE Ok(<<>>)
        target == IF ptr.kind # "ok" THEN ptr
                  ELSE IF uri.fragment # <<>> THEN PointerEvaluate(ptr.val, schema)
                  ELSE Ok(schema)
    IN IF target.kind = "JSONPointerError" THEN [res |-> Raise("CatalogueError"), cache |-> cache]
       ELSE IF NotJSONSchema(target.val) THEN [res |-> Raise("CatalogueError"), cache |-> cache]
       ELSE [res |-> target, cache |-> cache]

\* Catalogue.get_schema(uri, session=session): what it returns or raises, and the cache after
GetSchema(cache, dirs, fs, uri, session) ==
    LET try_caches == TryCaches(session)
        exact == CacheLookup(cache, try_caches, uri)
        base_uri == UriCopyNoFragment(uri)
        cached_base == IF uri.has_fragment THEN CacheLookup(cache, try_caches, base_uri)
                       ELSE Raise("KeyError")
    IN IF exact.kind = "ok" THEN [res |-> exact, cache |-> cache]
       ELSE IF cached_base.kind = "ok" THEN GetSchemaResolve(cache, cached_base.val, uri)
       ELSE LET doc == LoadJson(dirs, fs, base_uri)
            IN IF doc.kind # "ok" THEN [res |-> doc, cache |-> cache]
               ELSE LET new == JSONSchemaInit(cache, base_uri, session)
                    IN GetSchemaResolve(new.cache, new.schema, uri)

\* the finally clause as an else clause: the pop is skipped when the body raised
SessionExitCache_UnlessRaised(cache, session, raised) ==
    IF raised THEN cache ELSE FnDel(cache, session)

\* the finally clause of session(): self._schema_cache.pop(session, None)
SessionExitCache(cache, session, raised) == FnDel(cache, session)

LiveCount == IF live = <<>> THEN 0
             ELSE LET RECURSIVE Sum(_)
                      Sum(T) == IF T = {} THEN 0
                                ELSE LET t == CHOOSE x \in T : TRUE IN live[t] + Sum(T \ {t})
                  IN Sum(DOMAIN live)

\* JSONSchema(doc, catalogue, session=session, uri=uri), whose constructor calls add_schema
add_schema(uri, session) ==
    /\ schema_cache' = JSONSchemaInit(schema_cache, uri, session).cache
    /\ last' = [op |-> "add_schema"]
    /\ UNCHANGED <<directories, files, vocabularies, format_validators, live, scope>>

del_schema(uri, session) ==
    /\ schema_cache' = DelSchema(schema_cache, uri, session)
    /\ last' = [op |-> "del_schema"]
    /\ UNCHANGED <<directories, files, vocabularies, format_validators, live, scope>>

get_schema(uri, session) ==
    /\ LET r == GetSchema(schema_cache, directories, files, uri, session)
       IN /\ schema_cache' = r.cache
          /\ last' = [op |-> "get_schema", uri |-> uri, tag |-> session, res |-> r.res]
    /\ UNCHANGED <<directories, files, vocabularies, format_validators, live, scope>>

\* entering `with catalogue.session(arg)`: up to the yield, or the raise before it
session_enter(arg) ==
    /\ LiveCount < MaxNest
    /\ \E session \in Tags :
        \* session = uuid.uuid4() for None: a tag nobody holds
        /\ IF arg = NoSession
           THEN session \in UuidTags /\ session \notin DOMAIN schema_cache /\ live[session] = 0
           ELSE session = arg
        /\ IF session \in DOMAIN schema_cache
           THEN /\ live' = live
                /\ last' = [op |-> "session_enter", tag |-> session, res |-> Raise("CatalogueError")]
           ELSE /\ live' = [live EXCEPT ![session] = @ + 1]
                /\ last' = [op |-> "session_enter", tag |-> session, res |-> Ok(<<>>)]
    /\ UNCHANGED <<directories, files, vocabularies, format_validators, schema_cache, scope>>

\* leaving the scope, its body having returned or raised
session_exit(session, raised) ==
    /\ live[session] > 0
    /\ live' = [live EXCEPT ![session] = @ - 1]
    /\ schema_cache' = SessionExitCache(schema_cache, session, raised)
    /\ last' = [op |-> "session_exit", tag |-> session, raised |-> raised,
                popped |-> IF session \in DOMAIN schema_cache THEN DOMAIN schema_cache[session] ELSE {}]
    /\ UNCHANGED <<directories, files, vocabularies, format_validators, scope>>

\* the schema document "s:/a/x", stored as /d/x.json
PathX == PathA \o <<"x">>
UriX == Uri(Scheme, PathX)
FileX == Append(DirD, <<"x">> \o DotJson)

\* its fragments: empty, the schema /p/a, the plain object /p, a pointer to nothing, and a
\* plain name
FragPA == <<"/", "p", "/", "a">>
FragP == <<"/", "p">>
FragA == <<"/", "a">>
FragName == <<"a">>
Fragments == {<<>>, FragPA, FragP, FragA, FragName}
SchemaUris == {UriX} \cup {UriF(Scheme, PathX, f) : f \in Fragments}

InitCat ==
    /\ directories = <<>>
    /\ files = {FileX}
    /\ vocabularies = <<>>
    /\ format_validators = <<>>
    /\ schema_cache = EmptyDict
    /\ live = [t \in Tags |-> 0]
    /\ scope = <<>>
    /\ last = NoCall

\* what the library caches: a document under its URI, an anchored subschema under the
\* document's URI with the anchor's name as the fragment
CachedUris == {UriX, UriF(Scheme, PathX, FragName)}

\* the cache and its lookup
NextLookup ==
    \/ add_directory(BaseA, DirD)
    \/ \E uri \in CachedUris, session \in Tags : add_schema(uri, session)
    \/ \E uri \in CachedUris, session \in Tags : del_schema(uri, session)
    \/ \E uri \in SchemaUris, session \in Tags : get_schema(uri, session)

SpecLookup == InitCat /\ [][NextLookup]_vars

\* the cache and the session scopes
NextSession ==
    \/ add_directory(BaseA, DirD)
    \/ \E session \in Tags : add_schema(UriX, session)
    \/ \E session \in Tags : del_schema(UriX, session)
    \/ \E uri \in {UriX, UriF(Scheme, PathX, FragPA)}, session \in Tags : get_schema(uri, session)
    \/ \E arg \in Tags \cup {NoSession} : session_enter(arg)
    \/ \E session \in Tags, raised \in BOOLEAN : session_exit(session, raised)

SpecSession == InitCat /\ [][NextSession]_vars

------------------------------------------------------------------------------
(* Vocabularies and metaschemas *)

\* Vocabulary(uri, *kwclasses)
Vocabulary(uri) == [uri |-> uri]

\* Catalogue.get_vocabulary
GetVocabulary(vocabs, uri) ==
    IF uri \in DOMAIN vocabs THEN Ok(vocabs[uri]) ELSE Raise("CatalogueError")

\* the metaschema documents on disk: "s:/a/m" (/d/m.json) is valid against itself,
\* "s:/a/b" (/d/b.json) is not, and "s:/a/n" has no file
UriM == Uri(Scheme, PathA \o <<"m">>)
UriB == Uri(Scheme, PathA \o <<"b">>)
UriN == Uri(Scheme, PathA \o <<"n">>)
FileM == Append(DirD, <<"m">> \o DotJson)
FileB == Append(DirD, <<"b">> \o DotJson)
MetaschemaUris == {UriM, UriB, UriN}

\* the outcome of evaluating a metaschema document against itself
SelfValid(doc) == doc # FileB

\* Metaschema(catalogue, doc, core_vocabulary, *default_vocabularies): a JSONSchema
\* constructed with session="__meta__" under the document's "$id" (the URI it is stored
\* under), which is its "$schema" too
MetaschemaInit(cache, uri, doc) == JSONSchemaInit(cache, uri, Meta)

\* metaschema.validate(): the document is evaluated by the schema's metaschema, which is
\* looked up under "__meta__" in the cache as it is when validate() is called
MetaschemaValidate(cache, uri, doc) ==
    IF CacheLookup(cache, <<Meta>>, uri).kind = "ok" THEN Ok(SelfValid(doc))
    ELSE Raise("JSONSchemaError")

\* validate() called on the cache as it was before the metaschema was constructed
CacheAtValidate_BeforeInit(before, after) == before

\* the cache validate() runs on: construction (line 173) comes before validation (line 174)
CacheAtValidate(before, after) == after

RECURSIVE GetVocabularies(_, _)
\* [self.get_vocabulary(vocab_uri) for vocab_uri in default_vocabulary_uris]
GetVocabularies(vocabs, uris) ==
    IF uris = <<>> THEN Ok(<<>>)
    ELSE LET first == GetVocabulary(vocabs, Head(uris))
             rest == GetVocabularies(vocabs, Tail(uris))
         IN IF first.kind # "ok" THEN first
            ELSE IF rest.kind # "ok" THEN rest
            ELSE Ok(<<first.val>> \o rest.val)

\* Catalogue.create_metaschema: what it returns or raises, and the cache after
CreateMetaschema(cache, vocabs, dirs, fs, metaschema_uri, core_vocabulary_uri, default_vocabulary_uris) ==
    LET metaschema_doc == LoadJson(dirs, fs, metaschema_uri)
        core_vocabulary == GetVocabulary(vocabs, core_vocabulary_uri)
        default_vocabularies == GetVocabularies(vocabs, default_vocabulary_uris)
    IN IF metaschema_doc.kind # "ok" THEN [res |-> metaschema_doc, cache |-> cache]
       ELSE IF core_vocabulary.kind # "ok" THEN [res |-> core_vocabulary, cache |-> cache]
       ELSE IF default_vocabularies.kind # "ok" THEN [res |-> default_vocabularies, cache |-> cache]
       ELSE LET metaschema == MetaschemaInit(cache, metaschema_uri, metaschema_doc.val)
                validated == MetaschemaValidate(CacheAtValidate(cache, metaschema.cache),
                                                metaschema_uri, metaschema_doc.val)
            IN IF validated.kind # "ok" THEN [res |-> validated, cache |-> metaschema.cache]
               ELSE IF ~validated.val
               THEN [res |-> Raise("CatalogueError"), cache |-> metaschema.cache]
               ELSE [res |-> Ok(<<>>), cache |-> metaschema.cache]

create_vocabulary(uri) ==
    /\ vocabularies' = FnPut(vocabularies, uri, Vocabulary(uri))
    /\ last' = [op |-> "create_vocabulary"]
    /\ UNCHANGED <<directories, files, format_validators, schema_cache, live, scope>>

create_metaschema(metaschema_uri, core_vocabulary_uri, default_vocabulary_uris) ==
    /\ LET r == CreateMetaschema(schema_cache, vocabularies, directories, files,
                                 metaschema_uri, core_vocabulary_uri, default_vocabulary_uris)
       IN /\ schema_cache' = r.cache
          /\ last' = [op |-> "create_metaschema", uri |-> metaschema_uri,
                      core |-> core_vocabulary_uri, defaults |-> default_vocabulary_uris,
                      res |-> r.res]
    /\ UNCHANGED <<directories, files, vocabularies, format_validators, live, scope>>

VocabularyUris == {"core", "validation"}

InitMeta ==
    /\ directories = <<>>
    /\ files = {FileM, FileB}
    /\ vocabularies = EmptyDict
    /\ format_validators = EmptyDict
    /\ schema_cache = EmptyDict
    /\ live = <<>>
    /\ scope = EmptyDict
    /\ last = NoCall

NextMeta ==
    \/ add_directory(BaseA, DirD)
    \/ \E uri \in VocabularyUris : create_vocabulary(uri)
    \/ \E metaschema_uri \in MetaschemaUris, core_vocabulary_uri \in VocabularyUris,
          default_vocabulary_uris \in SeqsUpTo(VocabularyUris, MaxDefaults) :
            create_metaschema(metaschema_uri, core_vocabulary_uri, default_vocabulary_uris)
    \/ \E uri \in MetaschemaUris : del_schema(uri, Meta)

SpecMeta == InitMeta /\ [][NextMeta]_vars

------------------------------------------------------------------------------
(* Scopes (jschon.jsonschema.Scope): the errors, the annotation and the    *)
(* assert flag of one keyword's evaluation.  The scope tree of an          *)
(* evaluation is the root's children: keyword name -> scope.               *)

NoAnnotation == [has |-> FALSE, value |-> <<>>]
Annotation(v) == [has |-> TRUE, value |-> v]
NewScope == [errors |-> <<>>, annotation |-> NoAnnotation, assert |-> TRUE]

\* Scope.fail: an error is appended
ScopeFail(sc, message) == [sc EXCEPT !.errors = Append(@, message)]
\* Scope.valid: no errors
ScopeValid(sc) == sc.errors = <<>>
\* the root scope is valid iff every asserting child is
RootValid(children) == \A k \in DOMAIN children : children[k].assert => ScopeValid(children[k])

------------------------------------------------------------------------------
(* Format validators and the format keyword *)

FormatAttrs == {"ipv4", "ipv6", "uuid"}
Validators == {"ipv4_validator", "ipv6_validator"}

String(v) == [type |-> "string", value |-> v]
FormatInstances == {String("1.2.3.4"), String("::1"), [type |-> "number", value |-> "7"]}

\* ipv4_validator and ipv6_validator: a string that is no address raises ValueError,
\* anything but a string passes
ValidatorAccepts(validator, instance) ==
    \/ instance.type # "string"
    \/ validator = "ipv4_validator" /\ instance.value = "1.2.3.4"
    \/ validator = "ipv6_validator" /\ instance.value = "::1"

\* dict.update
DictUpdate(d, other) ==
    [k \in DOMAIN d \cup DOMAIN other |-> IF k \in DOMAIN other THEN other[k] ELSE d[k]]

\* the lookup misses whatever is registered
GetFormatValidator_AlwaysUnsupported(validators, format_attr) == Raise("CatalogueError")

\* Catalogue.get_format_validator
GetFormatValidator(validators, format_attr) ==
    IF format_attr \in DOMAIN validators THEN Ok(validators[format_attr])
    ELSE Raise("CatalogueError")

\* FormatKeyword(schema, format_attr).evaluate(instance, scope): the annotation is the
\* attribute; a registered validator decides validity, and without one the scope passes
\* and does not assert
FormatEvaluate(validators, format_attr, instance, sc) ==
    LET validator == GetFormatValidator(validators, format_attr)
        annotated == [sc EXCEPT !.annotation = Annotation(format_attr)]
    IN IF validator.kind # "ok" THEN [annotated EXCEPT !.assert = FALSE]
       ELSE IF ValidatorAccepts(validator.val, instance) THEN annotated
       ELSE ScopeFail(annotated, "invalid against the format")

add_format_validators(validators) ==
    /\ format_validators' = DictUpdate(format_validators, validators)
    /\ last' = [op |-> "add_format_validators"]
    /\ UNCHANGED <<directories, files, vocabularies, schema_cache, live, scope>>

\* evaluate(format_attr, instval) of test_formats.py
format_evaluate(format_attr, instance) ==
    /\ scope' = [k \in {"format"} |->
                    FormatEvaluate(format_validators, format_attr, instance, NewScope)]
    /\ last' = [op |-> "format", attr |-> format_attr, instance |-> instance]
    /\ UNCHANGED <<directories, files, vocabularies, format_validators, schema_cache, live>>

\* the maps add_format_validators is called with: one validator for one attribute, or the
\* fixture's two
ValidatorMaps ==
    {[k \in {a} |-> v] : a \in FormatAttrs, v \in Validators}
        \cup {[k \in {"ipv4", "ipv6"} |-> IF k = "ipv4" THEN "ipv4_validator" ELSE "ipv6_validator"]}

InitFormat ==
    /\ directories = <<>>
    /\ files = {}
    /\ vocabularies = EmptyDict
    /\ format_validators = EmptyDict
    /\ schema_cache = EmptyDict
    /\ live = <<>>
    /\ scope = EmptyDict
    /\ last = NoCall

NextFormat ==
    \/ \E validators \in ValidatorMaps : add_format_validators(validators)
    \/ \E a \in FormatAttrs, instance \in FormatInstances : format_evaluate(a, instance)

SpecFormat == InitFormat /\ [][NextFormat]_vars

------------------------------------------------------------------------------
(* contains, maxContains and minContains *)

NoLimit == [has |-> FALSE, value |-> 0]
Limit(n) == [has |-> TRUE, value |-> n]

\* the elements the subschema of "contains" accepts: {"const": 1}
ContainsAccepts(item) == item = 1

RECURSIVE CountMatches(_)
CountMatches(items) ==
    IF items = <<>> THEN 0
    ELSE (IF ContainsAccepts(Head(items)) THEN 1 ELSE 0) + CountMatches(Tail(items))

\* ContainsKeyword.evaluate: the annotation is the number of matching elements; with none
\* the scope fails
ContainsEvaluate(instance, sc) ==
    IF CountMatches(instance.value) > 0
    THEN [sc EXCEPT !.annotation = Annotation(CountMatches(instance.value))]
    ELSE ScopeFail(sc, "no element is valid against contains")

\* MaxContainsKeyword.evaluate, in the scope children["maxContains"]
MaxContainsEvaluate(children, limit) ==
    IF "contains" \notin DOMAIN children THEN children
    ELSE LET contains_annotation == children["contains"].annotation
         IN IF contains_annotation.has /\ contains_annotation.value > limit
            THEN [children EXCEPT !["maxContains"] = ScopeFail(@, "too many elements match")]
            ELSE children

\* contains.errors is never cleared
MinContainsClears_Never(children, valid) == FALSE

\* the condition without the look at maxContains
MinContainsClears_WhateverMaxContains(children, valid) ==
    valid /\ ~ScopeValid(children["contains"])

\* the condition under which MinContainsKeyword.evaluate clears contains.errors
MinContainsClears(children, valid) ==
    /\ valid /\ ~ScopeValid(children["contains"])
    /\ \/ "maxContains" \notin DOMAIN children
       \/ ScopeValid(children["maxContains"])

\* MinContainsKeyword.evaluate, in the scope children["minContains"]
MinContainsEvaluate(children, limit) ==
    IF "contains" \notin DOMAIN children THEN children
    ELSE LET contains_annotation == children["contains"].annotation
             contains_count == IF contains_annotation.has THEN contains_annotation.value ELSE 0
             valid == contains_count >= limit
             cleared == IF MinContainsClears(children, valid)
                        THEN [children EXCEPT !["contains"].errors = <<>>]
                        ELSE children
         IN IF ~valid
            THEN [cleared EXCEPT !["minContains"] = ScopeFail(@, "too few elements match")]
            ELSE cleared

\* JSONSchema.evaluate for a schema of these three keywords: each keyword present, and
\* applicable to the instance's type (__types__ = "array"), is evaluated in a child scope
\* of its own, a keyword after those it depends on (contains, maxContains, minContains)
SchemaEvaluate(schema, instance) ==
    IF instance.type # "array" THEN EmptyDict
    ELSE LET c0 == IF schema.contains
                   THEN FnPut(EmptyDict, "contains", ContainsEvaluate(instance, NewScope))
                   ELSE EmptyDict
             c1 == IF schema.maxContains.has
                   THEN MaxContainsEvaluate(FnPut(c0, "maxContains", NewScope), schema.maxContains.value)
                   ELSE c0
         IN IF schema.minContains.has
            THEN MinContainsEvaluate(FnPut(c1, "minContains", NewScope), schema.minContains.value)
            ELSE c1

schema_evaluate(schema, instance) ==
    /\ scope' = SchemaEvaluate(schema, instance)
    /\ last' = [op |-> "evaluate", schema |-> schema, instance |-> instance]
    /\ UNCHANGED <<directories, files, vocabularies, format_validators, schema_cache, live>>

Limits == {NoLimit} \cup {Limit(n) : n \in 0..MaxLimit}
ContainsSchemas == [contains : BOOLEAN, maxContains : Limits, minContains : Limits]
Array(items) == [type |-> "array", value |-> items]
ContainsInstances == {Array(items) : items \in SeqsUpTo({1, 2}, MaxElems)}
                        \cup {[type |-> "number", value |-> <<1>>]}

NextContains ==
    \E schema \in ContainsSchemas, instance \in ContainsInstances : schema_evaluate(schema, instance)

SpecContains == InitFormat /\ [][NextContains]_vars

------------------------------------------------------------------------------
(* minContains evaluated on its own: MinContainsKeyword(...).evaluate(instance, scope),  *)
(* the scope's siblings built by the caller                                             *)

\* a sibling scope with the errors and the annotation given
SiblingScope(errors, annotated, value) ==
    [errors |-> errors,
     annotation |-> IF annotated THEN Annotation(value) ELSE NoAnnotation,
     assert |-> TRUE]

\* the siblings of a minContains scope: contains (absent, or with or without an error and
\* an annotation) and maxContains (absent, valid or invalid)
Siblings(has_contains, contains, has_max_contains, max_contains) ==
    LET c0 == IF has_contains THEN FnPut(EmptyDict, "contains", contains) ELSE EmptyDict
    IN IF has_max_contains THEN FnPut(c0, "maxContains", max_contains) ELSE c0

ErrorLists == {<<>>, <<"error">>}

min_contains_evaluate(children, limit) ==
    /\ scope' = MinContainsEvaluate(FnPut(children, "minContains", NewScope), limit)
    /\ last' = [op |-> "minContains", before |-> FnPut(children, "minContains", NewScope),
                limit |-> limit]
    /\ UNCHANGED <<directories, files, vocabularies, format_validators, schema_cache, live>>

NextMinContains ==
    \/ \E schema \in ContainsSchemas, instance \in ContainsInstances :
            schema_evaluate(schema, instance)
    \/ \E has_contains \in BOOLEAN, errors \in ErrorLists, annotated \in BOOLEAN,
          value \in 1..MaxElems, has_max_contains \in BOOLEAN, max_errors \in ErrorLists,
          limit \in 0..MaxLimit :
            min_contains_evaluate(
                Siblings(has_contains, SiblingScope(errors, annotated, value),
                         has_max_contains, SiblingScope(max_errors, FALSE, 0)),
                limit)

SpecMinContains == InitFormat /\ [][NextMinContains]_vars

------------------------------------------------------------------------------
(* The type keyword *)

\* the enum of TypeKeyword.__schema__
TypeNames == {"null", "boolean", "number", "integer", "string", "array", "object"}
\* JSON.type: the kind of a JSON value; a number is a "number" whether integral or not
InstanceTypes == TypeNames \ {"integer"}

\* a number instance, its value counted in halves: Number(3) is 1.5 and Number(4) is 2.0
Number(halves) == [type |-> "number", value |-> halves]
\* int(value): truncation towards zero
IntOf(value) == IF value >= 0 THEN value \div 2 ELSE -((-value) \div 2)
\* the integer n as a number
FromInt(n) == 2 * n

\* any number is taken for an integer
TypeValid_AnyNumberIsInteger(types, instance) ==
    \/ instance.type \in types
    \/ instance.type = "number" /\ "integer" \in types

\* `valid` of TypeKeyword.evaluate; types is tuplify(self.json.value), read by membership
TypeValid(types, instance) ==
    IF instance.type \in types THEN TRUE
    ELSE IF instance.type = "number" /\ "integer" \in types
    THEN instance.value = FromInt(IntOf(instance.value))
    ELSE FALSE

\* TypeKeyword.evaluate
TypeEvaluate(types, instance, sc) ==
    IF ~TypeValid(types, instance) THEN ScopeFail(sc, "The instance must be of type ...")
    ELSE sc

type_evaluate(types, instance) ==
    /\ scope' = [k \in {"type"} |-> TypeEvaluate(types, instance, NewScope)]
    /\ last' = [op |-> "type", types |-> types, instance |-> instance]
    /\ UNCHANGED <<directories, files, vocabularies, format_validators, schema_cache, live>>

\* a type name, or an array of unique type names
TypeLists == {types \in SUBSET TypeNames : Cardinality(types) \in 1..MaxTypes}
TypeInstances == {Number(h) : h \in (-MaxHalves)..MaxHalves}
                    \cup {[type |-> t, value |-> 0] : t \in InstanceTypes \ {"number"}}

NextType ==
    \E types \in TypeLists, instance \in TypeInstances : type_evaluate(types, instance)

SpecType == InitFormat /\ [][NextType]_vars

------------------------------------------------------------------------------
(* Claims about the mount table and load_json, under SpecFs *)

MountSet(dirs) == {dirs[i] : i \in 1..Len(dirs)}

\* the registered mounts whose base URI string is a prefix of str(uri)
PrefixingMounts(uri) == {m \in MountSet(directories) : StartsWith(UriStr(uri), UriStr(m.uri))}

\* the one with the longest base (two prefixes of one string differ in length)
LongestMount(uri) ==
    CHOOSE m \in PrefixingMounts(uri) :
        \A n \in PrefixingMounts(uri) : Len(UriStr(n.uri)) <= Len(UriStr(m.uri))

RemainderBelow(uri, m) == Drop(UriStr(uri), Len(UriStr(m.uri)))
LiteralPath(uri, m) == PathJoin(m.dir, RemainderBelow(uri, m))

IsValidLoadUri(uri) == uri.scheme # <<>> /\ IsNormalized(uri) /\ ~uri.has_fragment

\* no file for uri below mount m: neither the literal name nor the name with ".json"
\* appended to it or put in place of its extension
MissingBelow(uri, m) ==
    \A q \in { LiteralPath(uri, m),
               AppendSuffix(LiteralPath(uri, m), DotJson),
               ReplaceSuffix(LiteralPath(uri, m), DotJson) } :
        JsonLoadf(files, q).kind = "FileNotFoundError"

C5_Case ==
    /\ last.op = "load_json"
    /\ IsValidLoadUri(last.uri)
    /\ Cardinality(PrefixingMounts(last.uri)) >= 2

\* C5: when several registered bases prefix uri, load_json reads only below the directory of
\* the longest one: whatever it returns was loaded from below that directory, and when the
\* file is missing there it raises CatalogueError, whatever the other mounts' directories
\* hold and in whatever order the mounts were added.
C5_LongestPrefixOnly ==
    C5_Case =>
        LET m == LongestMount(last.uri)
        IN /\ last.res.kind = "ok" => IsProperPrefix(m.dir, last.res.val)
           /\ MissingBelow(last.uri, m) => last.res = Raise("CatalogueError")

\* the file is missing below the longest base's directory, is there below a shorter base's
\* directory, and load_json raised CatalogueError
C5_Witness ==
    /\ C5_Case
    /\ MissingBelow(last.uri, LongestMount(last.uri))
    /\ \E n \in PrefixingMounts(last.uri) :
            /\ n # LongestMount(last.uri)
            /\ LiteralPath(last.uri, n) \in files
    /\ last.res = Raise("CatalogueError")

\* C6: with a registered base, load_json probes the literal remainder and then the remainder
\* with ".json" appended to it, returns the first that exists and raises CatalogueError if
\* neither does (stated for remainders that name a file: neither probe is a directory or
\* lies below a regular file).
C6_LiteralThenJsonAppended ==
    (/\ last.op = "load_json"
     /\ IsValidLoadUri(last.uri)
     /\ PrefixingMounts(last.uri) # {}
     /\ RemainderBelow(last.uri, LongestMount(last.uri)) # <<>>)
    => LET p == LiteralPath(last.uri, LongestMount(last.uri))
           q == AppendSuffix(p, DotJson)
       IN (/\ JsonLoadf(files, p).kind \in {"ok", "FileNotFoundError"}
           /\ JsonLoadf(files, q).kind \in {"ok", "FileNotFoundError"})
          => last.res = IF p \in files THEN Ok(p)
                        ELSE IF q \in files THEN Ok(q)
                        ELSE Raise("CatalogueError")

AddDirectoryArgsValid(u, d) ==
    /\ u.scheme # <<>>
    /\ IsNormalized(u)
    /\ ~u.has_fragment
    /\ u.path # <<>>
    /\ u.path[Len(u.path)] = "/"
    /\ IsDir(files, d)

\* C7: add_directory registers the mount iff base_uri is absolute, normalized, without a
\* fragment, with a path ending in '/', and base_dir is a directory; otherwise it raises
\* CatalogueError and the mount table is as it was.
C7_AddDirectoryAllOrNothing ==
    [][last'.op = "add_directory" =>
        IF AddDirectoryArgsValid(last'.uri, last'.dir)
        THEN /\ last'.res.kind = "ok"
             /\ MountSet(directories') =
                    {m \in MountSet(directories) : m.uri # last'.uri}
                        \cup {[uri |-> last'.uri, dir |-> last'.dir]}
        ELSE /\ last'.res = Raise("CatalogueError")
             /\ directories' = directories]_vars

\* a rejected add_directory on a catalogue that already has a mount
C7_Witness ==
    /\ last.op = "add_directory"
    /\ ~AddDirectoryArgsValid(last.uri, last.dir)
    /\ last.res = Raise("CatalogueError")
    /\ directories # <<>>

------------------------------------------------------------------------------
(* Claims about the session scopes, under SpecSession *)

Has(cache, session, uri) == session \in DOMAIN cache /\ uri \in DOMAIN cache[session]

\* C1: entering session(tag) while a session(tag) scope is open raises CatalogueError,
\* whatever was done in between: an entry that succeeds leaves exactly one scope open.
C1_ReentryRaises ==
    (last.op = "session_enter" /\ last.res.kind = "ok") => live[last.tag] = 1

\* C2: when a session(tag) scope exits, having returned or raised, no cache is left for
\* tag, and every other session's cache is as it was.
C2_ExitDropsOnlyItsTag ==
    [][last'.op = "session_exit" =>
        /\ last'.tag \notin DOMAIN schema_cache'
        /\ \A t \in Tags \ {last'.tag} :
            /\ t \in DOMAIN schema_cache' <=> t \in DOMAIN schema_cache
            /\ t \in DOMAIN schema_cache => schema_cache'[t] = schema_cache[t]]_vars

\* a scope whose body raised has exited, dropping a schema cached under its tag, while
\* another session holds one
C2_Witness ==
    /\ last.op = "session_exit"
    /\ last.raised
    /\ last.popped # {}
    /\ last.tag \notin DOMAIN schema_cache
    /\ \E t \in Tags \ {last.tag} : Has(schema_cache, t, UriX)

\* C3: no entry or exit of a session scope, with any tag, removes a schema cached under
\* "__meta__".
C3_MetaNeverReleased ==
    [][last'.op \in {"session_enter", "session_exit"} =>
        (Meta \in DOMAIN schema_cache =>
            /\ Meta \in DOMAIN schema_cache'
            /\ \A u \in DOMAIN schema_cache[Meta] :
                /\ u \in DOMAIN schema_cache'[Meta]
                /\ schema_cache'[Meta][u] = schema_cache[Meta][u])]_vars

------------------------------------------------------------------------------
(* Claims about get_schema, under SpecLookup *)

\* C4: get_schema(uri, session=s) returns the schema cached under (s, uri) when there is
\* one, otherwise the one cached under ("__meta__", uri) when there is one; and whatever it
\* returns is a schema of session s or of "__meta__" (of "__meta__" alone for
\* s = "__meta__"), never one of a third session.
C4_LookupOrder ==
    [][last'.op = "get_schema" =>
        LET s == last'.tag
            u == last'.uri
            r == last'.res
        IN /\ Has(schema_cache, s, u) => r = Ok(schema_cache[s][u])
           /\ (~Has(schema_cache, s, u) /\ Has(schema_cache, Meta, u))
                => r = Ok(schema_cache[Meta][u])
           /\ r.kind = "ok" => r.val.session \in {s, Meta}]_vars

\* a lookup in session "default" of a URI cached under "__meta__" and under a third
\* session, but not under "default", returned the "__meta__" schema
C4_Witness ==
    /\ last.op = "get_schema"
    /\ last.tag = Default
    /\ ~Has(schema_cache, Default, last.uri)
    /\ Has(schema_cache, Meta, last.uri)
    /\ Has(schema_cache, Uuid1, last.uri)
    /\ last.res = Ok(schema_cache[Meta][last.uri])

C10_Case(u, s) ==
    /\ u.has_fragment
    /\ u.fragment # <<>>
    /\ \/ Has(schema_cache, s, UriCopyNoFragment(u))
       \/ Has(schema_cache, Meta, UriCopyNoFragment(u))
       \/ LoadJson(directories, files, UriCopyNoFragment(u)).kind = "ok"

\* the base schema the fragment is resolved from: the cached one, or the one newly loaded
C10_Base(u, s) ==
    LET b == UriCopyNoFragment(u)
    IN IF Has(schema_cache, s, b) THEN schema_cache[s][b]
       ELSE IF Has(schema_cache, Meta, b) THEN schema_cache[Meta][b]
       ELSE Node(s, b, <<>>)

\* of the fragments used, only /p/a leads to a schema: /p leads to a plain object, /a to
\* nothing, and a plain name is no pointer
C10_Expected(u, s) ==
    IF u.fragment = FragPA THEN Ok([C10_Base(u, s) EXCEPT !.ptr = <<TokP, TokA>>])
    ELSE Raise("CatalogueError")

\* C10, as amended: when uri itself is not cached under the sessions consulted,
\* get_schema(uri) with a non-empty fragment and a cached or loadable base returns the node
\* the fragment leads to from the base schema if that is a schema, and raises
\* CatalogueError if the pointer does not resolve or the node is not a schema.
C10_DescentUnlessCached ==
    [][(/\ last'.op = "get_schema"
        /\ C10_Case(last'.uri, last'.tag)
        /\ ~Has(schema_cache, last'.tag, last'.uri)
        /\ ~Has(schema_cache, Meta, last'.uri))
       => last'.res = C10_Expected(last'.uri, last'.tag)]_vars

\* C10, as claimed: for every uri with a non-empty fragment and a cached or loadable base.
C10_DescentAlways ==
    [][(/\ last'.op = "get_schema"
        /\ C10_Case(last'.uri, last'.tag))
       => last'.res = C10_Expected(last'.uri, last'.tag)]_vars

\* get_schema of the fragment /p, which leads to a plain object, raised CatalogueError with
\* the base schema cached
C10_Witness ==
    /\ last.op = "get_schema"
    /\ last.uri.fragment = FragP
    /\ Has(schema_cache, last.tag, UriCopyNoFragment(last.uri))
    /\ ~Has(schema_cache, last.tag, last.uri)
    /\ ~Has(schema_cache, Meta, last.uri)
    /\ last.res = Raise("CatalogueError")

------------------------------------------------------------------------------
(* Claims about keyword evaluation *)

\* C8 (under SpecFormat): evaluating format with attribute a sets the scope's annotation
\* to a; with no validator registered for a the scope is valid and does not assert; with
\* one registered it asserts and is valid iff the validator accepts the instance's value.
C8_FormatAnnotatesAndAsserts ==
    last.op = "format" =>
        /\ scope["format"].annotation = Annotation(last.attr)
        /\ last.attr \notin DOMAIN format_validators =>
            /\ scope["format"].errors = <<>>
            /\ ~scope["format"].assert
        /\ last.attr \in DOMAIN format_validators =>
            /\ scope["format"].assert
            /\ scope["format"].errors = <<>>
                <=> ValidatorAccepts(format_validators[last.attr], last.instance)

\* a registered validator has rejected an instance
C8_Witness ==
    /\ last.op = "format"
    /\ last.attr \in DOMAIN format_validators
    /\ ~ValidatorAccepts(format_validators[last.attr], last.instance)
    /\ scope["format"].assert
    /\ scope["format"].errors # <<>>

C9_Case ==
    /\ last.op = "evaluate"
    /\ last.instance.type = "array"
    /\ last.schema.contains
    /\ last.schema.minContains = Limit(0)
    /\ ~last.schema.maxContains.has

\* C9 (under SpecContains): {contains: S, minContains: 0} is valid on every array, with no
\* errors in any scope, whether or not an element matches S.
C9_MinContainsZeroOverrides ==
    C9_Case =>
        /\ \A k \in DOMAIN scope : scope[k].assert => scope[k].errors = <<>>
        /\ \A k \in DOMAIN scope : scope[k].errors = <<>>

\* the schema was evaluated on a non-empty array none of whose elements matches S
C9_Witness ==
    /\ C9_Case
    /\ last.instance.value # <<>>
    /\ \A i \in 1..Len(last.instance.value) : last.instance.value[i] # 1
    /\ DOMAIN scope = {"contains", "minContains"}
    /\ \A k \in DOMAIN scope : scope[k].errors = <<>>

------------------------------------------------------------------------------
(* Claims about create_metaschema, under SpecMeta *)

C11_Loaded(u) == LoadJson(directories, files, u).kind = "ok"
C11_Known(core, defaults) ==
    /\ core \in DOMAIN vocabularies
    /\ \A i \in 1..Len(defaults) : defaults[i] \in DOMAIN vocabularies

\* C11: when the metaschema's JSON loads and its vocabularies are known, create_metaschema
\* caches the metaschema under "__meta__" and validates it with it there, raising
\* CatalogueError exactly when it is invalid against itself (the metaschema cached all
\* the same); with a vocabulary unknown it raises CatalogueError and caches nothing.
C11_AdmitThenValidate ==
    [][last'.op = "create_metaschema" =>
        /\ (C11_Loaded(last'.uri) /\ C11_Known(last'.core, last'.defaults)) =>
            /\ Has(schema_cache', Meta, last'.uri)
            /\ last'.res = IF SelfValid(LoadJson(directories, files, last'.uri).val)
                           THEN Ok(<<>>) ELSE Raise("CatalogueError")
        /\ (C11_Loaded(last'.uri) /\ ~C11_Known(last'.core, last'.defaults)) =>
            /\ last'.res = Raise("CatalogueError")
            /\ schema_cache' = schema_cache]_vars

\* a metaschema invalid against itself was refused, and one valid against itself is cached
C11_Witness ==
    /\ last.op = "create_metaschema"
    /\ last.uri = UriB
    /\ last.res = Raise("CatalogueError")
    /\ Has(schema_cache, Meta, UriB)
    /\ Has(schema_cache, Meta, UriM)
    /\ last.defaults # <<>>

------------------------------------------------------------------------------
(* Claims about the type keyword, under SpecType *)

\* the number is a whole one
C12_Integral(instance) == instance.value % 2 = 0

C12_Accepted ==
    \/ last.instance.type \in last.types
    \/ /\ last.instance.type = "number"
       /\ "integer" \in last.types
       /\ C12_Integral(last.instance)

\* C12: type accepts an instance iff its type is listed, or it is a number, "integer" is
\* listed and its value equals its integer truncation; {type: "integer"} accepts 1.0 and
\* 2.0 and rejects 1.5 and 2.5; a rejection appends exactly one error.
C12_TypeAcceptsIntegralNumbers ==
    last.op = "type" =>
        /\ scope["type"].errors = <<>> <=> C12_Accepted
        /\ ~C12_Accepted => Len(scope["type"].errors) = 1
        /\ (last.types = {"integer"} /\ last.instance \in {Number(2), Number(4)})
            => scope["type"].errors = <<>>
        /\ (last.types = {"integer"} /\ last.instance \in {Number(3), Number(5)})
            => Len(scope["type"].errors) = 1

\* {type: "integer"} has rejected 2.5
C12_Witness ==
    /\ last.op = "type"
    /\ last.types = {"integer"}
    /\ last.instance = Number(5)
    /\ Len(scope["type"].errors) = 1

------------------------------------------------------------------------------
(* Claims about minContains, under SpecMinContains *)

\* a minContains keyword was evaluated, on its own or as part of a schema
C13_Case ==
    \/ last.op = "minContains"
    \/ last.op = "evaluate" /\ last.instance.type = "array" /\ last.schema.minContains.has

\* the scopes as they were when minContains was evaluated
C13_Before ==
    IF last.op = "minContains" THEN last.before
    ELSE LET c0 == IF last.schema.contains
                   THEN FnPut(EmptyDict, "contains", ContainsEvaluate(last.instance, NewScope))
                   ELSE EmptyDict
             c1 == IF last.schema.maxContains.has
                   THEN MaxContainsEvaluate(FnPut(c0, "maxContains", NewScope),
                                            last.schema.maxContains.value)
                   ELSE c0
         IN FnPut(c1, "minContains", NewScope)

C13_Limit == IF last.op = "minContains" THEN last.limit ELSE last.schema.minContains.value

C13_Count ==
    IF C13_Before["contains"].annotation.has THEN C13_Before["contains"].annotation.value ELSE 0

C13_ClearCase ==
    /\ C13_Count >= C13_Limit
    /\ C13_Before["contains"].errors # <<>>
    /\ \/ "maxContains" \notin DOMAIN C13_Before
       \/ C13_Before["maxContains"].errors = <<>>

\* C13: with a contains sibling, minContains fails iff the count of matches (0 without an
\* annotation) is below its limit, and clears the sibling's errors exactly when the count
\* meets the limit, contains was invalid and maxContains is absent or valid; otherwise,
\* and without a contains sibling, the contains scope's errors are as they were.
C13_MinContainsFrame ==
    C13_Case =>
        /\ DOMAIN scope = DOMAIN C13_Before
        /\ "contains" \in DOMAIN scope =>
            /\ scope["minContains"].errors # <<>> <=> C13_Count < C13_Limit
            /\ scope["contains"].errors =
                IF C13_ClearCase THEN <<>> ELSE C13_Before["contains"].errors
        /\ "contains" \notin DOMAIN scope => scope = C13_Before

\* contains and maxContains were both invalid and the count met the limit: the errors of
\* contains were kept
C13_Witness ==
    /\ last.op = "minContains"
    /\ DOMAIN scope = {"contains", "maxContains", "minContains"}
    /\ last.before["contains"].errors # <<>>
    /\ last.before["maxContains"].errors # <<>>
    /\ C13_Count >= C13_Limit
    /\ scope["contains"].errors = last.before["contains"].errors
    /\ scope["minContains"].errors = <<>>

====
